---- MODULE Spec2Model ----
(***************************************************************************)
(* A model of src/fsm.py: the FiniteStateMachine class, its loader         *)
(* (parse / validate_transition) and its runtime (reset / advance / run).  *)
(*                                                                         *)
(* The module is Python 2 code: __init__ subscripts the result of map()    *)
(* (records[0]), which only a list-returning map allows, so map() is the   *)
(* eager Python 2 builtin everywhere, also in run().                       *)
(*                                                                         *)
(* Strings are TLA+ strings.  A Python dict is a function whose DOMAIN is  *)
(* the dict's key set.  The result of dict.get is an option: <<>> for None *)
(* and <<v>> for a value v.                                                *)
(***************************************************************************)
EXTENDS Integers, Sequences, FiniteSets, TLC

VARIABLES
    records,        \* self.records: the rows read from the file
    phase,          \* "ready": __init__ returned; "failed": __init__ raised
    states,         \* self.states
    symbols,        \* self.symbols
    initial_state,  \* self.initial_state
    terminals,      \* self.terminals
    transitions,    \* self.transitions: from_state -> (symbol -> to_state)
    current_state,  \* self.current_state
    lastCall,       \* the last call made on the object and its argument
    entry_state,    \* current_state at the moment of the last call
    printed,        \* the transition lines the last call printed, in order
    verdict,        \* the termination line the last call printed, or "none"
    attempts,       \* how many times the last call invoked advance
    raised,         \* the exception the last call raised, or NoError
    peers           \* two machines on one definition, and each one alone

vars == <<records, phase, states, symbols, initial_state, terminals,
          transitions, current_state, lastCall, entry_state, printed,
          verdict, attempts, raised, peers>>

(***************************************************************************)
(* Bounds.                                                                 *)
(***************************************************************************)
\* longest enumerated input sequence of run
MaxLen == 3
\* largest number of enumerated transition rows (rows 4+) of a file
MaxRows == 2

(***************************************************************************)
(* Exceptions.                                                             *)
(***************************************************************************)
NoError == [kind |-> "none", payload |-> <<>>]

TransitionError(transition) == [kind |-> "TransitionError", payload |-> transition]

StateError(state) == [kind |-> "StateError", payload |-> state]

SymbolError(symbol) == [kind |-> "SymbolError", payload |-> <<symbol>>]

\* raised by Python itself: records[i] on a short file
IndexError == [kind |-> "IndexError", payload |-> <<>>]

\* raised by Python itself: unpacking a row that has not three fields
ValueError == [kind |-> "ValueError", payload |-> <<>>]

(***************************************************************************)
(* Python helpers.                                                         *)
(***************************************************************************)
\* set(row)
SetOf(row) == {row[i] : i \in 1..Len(row)}

\* {} : the empty dict
EmptyDict == [k \in {} |-> k]

\* d.get(k)
Get(d, k) == IF k \in DOMAIN d THEN <<d[k]>> ELSE <<>>

\* d[k] = v
SetItem(d, k, v) == [x \in DOMAIN d \cup {k} |-> IF x = k THEN v ELSE d[x]]

\* defaultdict(dict).__getitem__: the dict after the access d[k], which
\* inserts an empty dict for a missing key
Touch(d, k) == IF k \in DOMAIN d THEN d ELSE SetItem(d, k, EmptyDict)

\* '{t}'.format(t=to_state): None prints as 'None', a string as itself
FormatState(opt) == IF opt = <<>> THEN "None" ELSE opt[1]

\* truth value of an optional string: None and '' are false
Truthy(opt) == opt # <<>> /\ opt[1] # ""

\* code-point rank of the strings that occur in state rows
StrRank(s) ==
    CASE s = ""  -> 0
      [] s = "A" -> 1
      [] s = "B" -> 2
      [] s = "C" -> 3
      [] s = "D" -> 4
      [] OTHER   -> 5

\* sorted(S) for a set of at most two strings
Sorted(S) ==
    IF S = {} THEN <<>>
    ELSE LET lo == CHOOSE x \in S : \A y \in S : StrRank(x) <= StrRank(y)
         IN  IF S = {lo} THEN <<lo>>
             ELSE <<lo, CHOOSE y \in S : y # lo>>

(***************************************************************************)
(* The loader.                                                             *)
(***************************************************************************)
\* a validation that reports only the first state it finds undeclared
validate_transition_first_only(sts, from_state, to_state) ==
    IF from_state \notin sts THEN StateError(<<from_state>>)
    ELSE IF to_state \notin sts THEN StateError(<<to_state>>)
    ELSE NoError

\* validate_transition: the exception it raises, or NoError
validate_transition(sts, from_state, to_state) ==
    LET invalid_states == {from_state, to_state} \ sts
    IN  IF invalid_states # {} THEN StateError(Sorted(invalid_states))
        ELSE NoError

\* a loop that keeps the first target of a (from_state, symbol) pair, as
\* dict.setdefault would
RECURSIVE ParseLoop_first_wins(_, _, _, _)
ParseLoop_first_wins(recs, i, sts, trans) ==
    IF i > Len(recs) THEN [err |-> NoError, transitions |-> trans]
    ELSE IF Len(recs[i]) # 3 THEN [err |-> ValueError, transitions |-> trans]
    ELSE LET from_state == recs[i][1]
             symbol     == recs[i][2]
             to_state   == recs[i][3]
             v          == validate_transition(sts, from_state, to_state)
             inner      == Touch(trans, from_state)[from_state]
         IN  IF v # NoError THEN [err |-> v, transitions |-> trans]
             ELSE ParseLoop_first_wins(recs, i + 1, sts,
                     SetItem(trans, from_state,
                         IF symbol \in DOMAIN inner THEN inner
                         ELSE SetItem(inner, symbol, to_state)))

\* the for loop of parse over records[4:], from row i on
RECURSIVE ParseLoop(_, _, _, _)
ParseLoop(recs, i, sts, trans) ==
    IF i > Len(recs) THEN [err |-> NoError, transitions |-> trans]
    ELSE IF Len(recs[i]) # 3 THEN [err |-> ValueError, transitions |-> trans]
    ELSE LET from_state == recs[i][1]
             symbol     == recs[i][2]
             to_state   == recs[i][3]
             v          == validate_transition(sts, from_state, to_state)
         IN  IF v # NoError THEN [err |-> v, transitions |-> trans]
             ELSE ParseLoop(recs, i + 1, sts,
                     SetItem(trans, from_state,
                         SetItem(Touch(trans, from_state)[from_state],
                                 symbol, to_state)))

\* a parse that reads the terminal states one row too early
parse_terminals_off_by_one(recs) ==
    IF Len(recs) < 4
    THEN [err |-> IndexError, states |-> {}, symbols |-> {},
          initial_state |-> "", terminals |-> {}, transitions |-> EmptyDict]
    ELSE LET sts  == SetOf(recs[1])
             loop == ParseLoop(recs, 5, sts, EmptyDict)
         IN  [err |-> loop.err,
              states |-> sts,
              symbols |-> SetOf(recs[2]),
              initial_state |-> recs[3][1],
              terminals |-> SetOf(recs[3]),
              transitions |-> loop.transitions]

\* parse: the fields it assigns, and the exception it raises (or NoError)
parse(recs) ==
    IF Len(recs) < 4
    THEN [err |-> IndexError, states |-> {}, symbols |-> {},
          initial_state |-> "", terminals |-> {}, transitions |-> EmptyDict]
    ELSE LET sts  == SetOf(recs[1])
             loop == ParseLoop(recs, 5, sts, EmptyDict)
         IN  [err |-> loop.err,
              states |-> sts,
              symbols |-> SetOf(recs[2]),
              initial_state |-> recs[3][1],
              terminals |-> SetOf(recs[4]),
              transitions |-> loop.transitions]

(***************************************************************************)
(* The runtime, as functions of the fields they read.                      *)
(***************************************************************************)
\* advance with the assignment of current_state hoisted above the test of
\* to_state
advance_assign_before_test(syms, trans, cur, symbol) ==
    IF symbol \notin syms
    THEN [current_state |-> cur, transitions |-> trans,
          printed |-> <<>>, raised |-> SymbolError(symbol)]
    ELSE LET from_state == cur
             touched    == Touch(trans, from_state)
             to_state   == Get(touched[from_state], symbol)
             transition == <<from_state, symbol, FormatState(to_state)>>
         IN  IF Truthy(to_state)
             THEN [current_state |-> to_state[1], transitions |-> touched,
                   printed |-> <<transition>>, raised |-> NoError]
             ELSE [current_state |-> FormatState(to_state),
                   transitions |-> touched,
                   printed |-> <<>>, raised |-> TransitionError(transition)]

\* advance with the alphabet test placed after the lookup
advance_lookup_first(syms, trans, cur, symbol) ==
    LET from_state == cur
        touched    == Touch(trans, from_state)
        to_state   == Get(touched[from_state], symbol)
        transition == <<from_state, symbol, FormatState(to_state)>>
    IN  IF ~Truthy(to_state)
        THEN [current_state |-> cur, transitions |-> touched,
              printed |-> <<>>, raised |-> TransitionError(transition)]
        ELSE IF symbol \notin syms
        THEN [current_state |-> cur, transitions |-> touched,
              printed |-> <<>>, raised |-> SymbolError(symbol)]
        ELSE [current_state |-> to_state[1], transitions |-> touched,
              printed |-> <<transition>>, raised |-> NoError]

\* advance without the assignment of current_state
advance_no_update(syms, trans, cur, symbol) ==
    IF symbol \notin syms
    THEN [current_state |-> cur, transitions |-> trans,
          printed |-> <<>>, raised |-> SymbolError(symbol)]
    ELSE LET from_state == cur
             touched    == Touch(trans, from_state)
             to_state   == Get(touched[from_state], symbol)
             transition == <<from_state, symbol, FormatState(to_state)>>
         IN  IF Truthy(to_state)
             THEN [current_state |-> cur, transitions |-> touched,
                   printed |-> <<transition>>, raised |-> NoError]
             ELSE [current_state |-> cur, transitions |-> touched,
                   printed |-> <<>>, raised |-> TransitionError(transition)]

\* advance that formats the transition after the assignment, from the
\* updated current_state
advance_print_after_update(syms, trans, cur, symbol) ==
    IF symbol \notin syms
    THEN [current_state |-> cur, transitions |-> trans,
          printed |-> <<>>, raised |-> SymbolError(symbol)]
    ELSE LET from_state == cur
             touched    == Touch(trans, from_state)
             to_state   == Get(touched[from_state], symbol)
             transition == <<from_state, symbol, FormatState(to_state)>>
         IN  IF Truthy(to_state)
             THEN [current_state |-> to_state[1], transitions |-> touched,
                   printed |-> << <<to_state[1], symbol, to_state[1]>> >>,
                   raised |-> NoError]
             ELSE [current_state |-> cur, transitions |-> touched,
                   printed |-> <<>>, raised |-> TransitionError(transition)]

\* advance: the state, the dict, the printed line and the exception after
\* one call of advance(symbol) in state cur
advance(syms, trans, cur, symbol) ==
    IF symbol \notin syms
    THEN [current_state |-> cur, transitions |-> trans,
          printed |-> <<>>, raised |-> SymbolError(symbol)]
    ELSE LET from_state == cur
             touched    == Touch(trans, from_state)
             to_state   == Get(touched[from_state], symbol)
             transition == <<from_state, symbol, FormatState(to_state)>>
         IN  IF Truthy(to_state)
             THEN [current_state |-> to_state[1], transitions |-> touched,
                   printed |-> <<transition>>, raised |-> NoError]
             ELSE [current_state |-> cur, transitions |-> touched,
                   printed |-> <<>>, raised |-> TransitionError(transition)]

\* a loop that skips a failing symbol and goes on with the next one; it
\* reports the first exception
RECURSIVE MapAdvance_continue(_, _, _, _, _, _, _)
MapAdvance_continue(syms, trans, cur, sequence, i, lines, err) ==
    IF i > Len(sequence)
    THEN [current_state |-> cur, transitions |-> trans,
          printed |-> lines, raised |-> err, attempts |-> i - 1]
    ELSE LET a == advance(syms, trans, cur, sequence[i])
         IN  MapAdvance_continue(syms, a.transitions, a.current_state,
                 sequence, i + 1, lines \o a.printed,
                 IF err = NoError THEN a.raised ELSE err)

MapAdvance_skip_failures(syms, trans, cur, sequence, i, lines) ==
    MapAdvance_continue(syms, trans, cur, sequence, i, lines, NoError)

\* map(self.advance, sequence) from position i on: Python 2 map calls
\* advance on every element in order and stops at the first exception
RECURSIVE MapAdvance(_, _, _, _, _, _)
MapAdvance(syms, trans, cur, sequence, i, lines) ==
    IF i > Len(sequence)
    THEN [current_state |-> cur, transitions |-> trans,
          printed |-> lines, raised |-> NoError, attempts |-> i - 1]
    ELSE LET a == advance(syms, trans, cur, sequence[i])
         IN  IF a.raised # NoError
             THEN [current_state |-> a.current_state,
                   transitions |-> a.transitions,
                   printed |-> lines, raised |-> a.raised,
                   attempts |-> i]
             ELSE MapAdvance(syms, a.transitions, a.current_state, sequence,
                             i + 1, lines \o a.printed)

\* a reset that leaves current_state alone
ResetState_keep(init, cur) == cur

\* the state reset() stores in current_state
ResetState(init, cur) == init

\* a verdict that tests the terminal set for emptiness instead of membership
Termination_nonempty(cur, terms) ==
    IF terms # {} THEN "Terminated" ELSE "Failed to terminate"

\* the termination message of run
Termination(cur, terms) ==
    IF cur \in terms THEN "Terminated" ELSE "Failed to terminate"

\* a run that catches the exception of advance and goes on to the verdict
run_catching(syms, trans, init, terms, cur, sequence) ==
    LET m == MapAdvance(syms, trans, ResetState(init, cur), sequence, 1, <<>>)
    IN  [current_state |-> m.current_state,
         transitions |-> m.transitions,
         printed |-> m.printed,
         raised |-> m.raised,
         attempts |-> m.attempts,
         verdict |-> Termination(m.current_state, terms)]

\* run: reset, map advance over the sequence, then print the verdict; an
\* exception of advance leaves run before the verdict
run(syms, trans, init, terms, cur, sequence) ==
    LET m == MapAdvance(syms, trans, ResetState(init, cur), sequence, 1, <<>>)
    IN  [current_state |-> m.current_state,
         transitions |-> m.transitions,
         printed |-> m.printed,
         raised |-> m.raised,
         attempts |-> m.attempts,
         verdict |-> IF m.raised # NoError THEN "none"
                     ELSE Termination(m.current_state, terms)]

(***************************************************************************)
(* Inputs.                                                                 *)
(***************************************************************************)
\* the example file of the class docstring (fsm_test.csv)
ExampleRecords ==
    << <<"A", "B", "C">>, <<"a", "b">>, <<"A">>, <<"A", "C">>,
       <<"A", "a", "A">>, <<"A", "b", "B">>, <<"B", "a", "C">>,
       <<"B", "b", "C">>, <<"C", "a", "C">>, <<"C", "b", "A">> >>

\* the sequences of the demo
sequence1 == <<"a", "b", "b", "a", "a", "b", "a", "b">>

sequence2 == <<"a", "b", "b", "a", "a", "b">>

\* header rows (rows 0..3) of the enumerated files; '' is the field a
\* trailing delimiter or a blank line yields
HeaderRows ==
    { << <<"A", "B">>,      <<"a", "b">>, <<"A">>,      <<"B">> >>,
      << <<"A", "B", "">>,  <<"a", "b">>, <<"A">>,      <<"B", "">> >>,
      << <<"A", "B", "A">>, <<"a">>,      <<"B", "A">>, <<"">> >>,
      << <<"A", "B">>,      <<"a", "b">>, <<"D">>,      <<"A", "D">> >> }

\* the transition rows the enumerated files draw from
TransitionRows ==
    { <<"A", "a", "B">>, <<"B", "a", "A">>, <<"A", "a", "A">>,
      <<"B", "b", "">>,  <<"A", "c", "B">>, <<"B", "b", "D">>,
      <<"A", "b">>,      <<"D", "a", "">> }

RECURSIVE SeqsUpTo(_, _)
SeqsUpTo(S, n) ==
    IF n = 0 THEN {<<>>}
    ELSE LET shorter == SeqsUpTo(S, n - 1)
         IN  shorter \cup {Append(s, x) : s \in shorter, x \in S}

\* the files the constructor is given
RecordSets ==
    {ExampleRecords}
    \cup {h \o t : h \in HeaderRows, t \in SeqsUpTo(TransitionRows, MaxRows)}
    \cup {<<>>, << <<"A">>, <<"a">>, <<"A">> >>}

\* the symbols a caller passes: 'c' is outside every enumerated alphabet
SymbolInputs == {"a", "b", "c"}

SequenceInputs == SeqsUpTo(SymbolInputs, MaxLen) \cup {sequence1, sequence2}

(***************************************************************************)
(* Two machines on one definition.  They are two objects with their own    *)
(* current_state; their transitions dicts are either two equal dicts (two  *)
(* constructions from the same rows) or one dict object (an object and its *)
(* shallow copy).  Next to each machine runs a machine that is given the   *)
(* same calls alone, on a dict of its own.                                 *)
(***************************************************************************)
Machines == {1, 2}

\* what a call leaves to its caller
NoResult == [printed |-> <<>>, raised |-> NoError]

\* the two machines right after construction
Peers(p, shared) ==
    [shared |-> shared,
     cur    |-> [m \in Machines |-> p.initial_state],
     dict   |-> [m \in Machines |-> p.transitions],
     res    |-> [m \in Machines |-> NoResult],
     alone  |-> [m \in Machines |->
                   [cur |-> p.initial_state, dict |-> p.transitions,
                    res |-> NoResult]]]

\* a current_state kept on the class: every instance sees the assignment
StoreState_on_class(cur, m, s) == [k \in DOMAIN cur |-> s]

\* self.current_state = s on machine m: an attribute of the instance
StoreState(cur, m, s) == [cur EXCEPT ![m] = s]

\* the dicts after machine m left its dict as d
StoreDict(shared, dict, m, d) ==
    IF shared THEN [k \in DOMAIN dict |-> d] ELSE [dict EXCEPT ![m] = d]

(***************************************************************************)
(* The object.                                                             *)
(***************************************************************************)
\* __init__: parse the records, then reset
Init ==
    \E recs \in RecordSets :
        \E p \in {parse(recs)} :
            /\ records = recs
            /\ phase = IF p.err = NoError THEN "ready" ELSE "failed"
            /\ states = p.states
            /\ symbols = p.symbols
            /\ initial_state = p.initial_state
            /\ terminals = p.terminals
            /\ transitions = p.transitions
            /\ current_state = IF p.err = NoError THEN p.initial_state ELSE ""
            /\ lastCall = [op |-> "__init__", arg |-> <<>>]
            /\ entry_state = ""
            /\ printed = <<>>
            /\ verdict = "none"
            /\ attempts = 0
            /\ raised = p.err
            /\ peers = Peers(p, FALSE)

\* fsm.reset()
Reset ==
    /\ phase = "ready"
    /\ current_state' = ResetState(initial_state, current_state)
    /\ lastCall' = [op |-> "reset", arg |-> <<>>]
    /\ entry_state' = current_state
    /\ printed' = <<>>
    /\ verdict' = "none"
    /\ attempts' = 0
    /\ raised' = NoError
    /\ UNCHANGED <<records, phase, states, symbols, initial_state, terminals,
                   transitions, peers>>

\* fsm.advance(symbol)
Advance ==
    /\ phase = "ready"
    /\ \E symbol \in SymbolInputs :
        \E a \in {advance(symbols, transitions, current_state, symbol)} :
            /\ current_state' = a.current_state
            /\ transitions' = a.transitions
            /\ lastCall' = [op |-> "advance", arg |-> <<symbol>>]
            /\ entry_state' = current_state
            /\ printed' = a.printed
            /\ verdict' = "none"
            /\ attempts' = 1
            /\ raised' = a.raised
    /\ UNCHANGED <<records, phase, states, symbols, initial_state, terminals,
                   peers>>

\* fsm.run(sequence)
Run ==
    /\ phase = "ready"
    /\ \E sequence \in SequenceInputs :
        \E r \in {run(symbols, transitions, initial_state, terminals,
                     current_state, sequence)} :
            /\ current_state' = r.current_state
            /\ transitions' = r.transitions
            /\ lastCall' = [op |-> "run", arg |-> sequence]
            /\ entry_state' = current_state
            /\ printed' = r.printed
            /\ verdict' = r.verdict
            /\ attempts' = r.attempts
            /\ raised' = r.raised
    /\ UNCHANGED <<records, phase, states, symbols, initial_state, terminals,
                   peers>>

Next == Reset \/ Advance \/ Run

Spec == Init /\ [][Next]_vars

\* construction of two machines on one definition
InitPair ==
    \E recs \in RecordSets, shared \in BOOLEAN :
        \E p \in {parse(recs)} :
            /\ records = recs
            /\ phase = IF p.err = NoError THEN "ready" ELSE "failed"
            /\ states = p.states
            /\ symbols = p.symbols
            /\ initial_state = p.initial_state
            /\ terminals = p.terminals
            /\ transitions = p.transitions
            /\ current_state = IF p.err = NoError THEN p.initial_state ELSE ""
            /\ lastCall = [op |-> "__init__", arg |-> <<>>]
            /\ entry_state = ""
            /\ printed = <<>>
            /\ verdict = "none"
            /\ attempts = 0
            /\ raised = p.err
            /\ peers = Peers(p, shared)

\* reset() on one of the two machines
PeerReset ==
    /\ phase = "ready"
    /\ \E m \in Machines :
        peers' = [peers EXCEPT
            !.cur = StoreState(@, m, ResetState(initial_state, @[m])),
            !.res[m] = NoResult,
            !.alone[m].cur = ResetState(initial_state, @),
            !.alone[m].res = NoResult]
    /\ UNCHANGED <<records, phase, states, symbols, initial_state, terminals,
                   transitions, current_state, lastCall, entry_state,
                   printed, verdict, attempts, raised>>

\* advance(symbol) on one of the two machines
PeerAdvance ==
    /\ phase = "ready"
    /\ \E m \in Machines, symbol \in SymbolInputs :
        \E a \in {advance(symbols, peers.dict[m], peers.cur[m], symbol)},
           b \in {advance(symbols, peers.alone[m].dict, peers.alone[m].cur,
                          symbol)} :
            peers' = [peers EXCEPT
                !.cur = StoreState(@, m, a.current_state),
                !.dict = StoreDict(peers.shared, @, m, a.transitions),
                !.res[m] = [printed |-> a.printed, raised |-> a.raised],
                !.alone[m] = [cur |-> b.current_state,
                              dict |-> b.transitions,
                              res |-> [printed |-> b.printed,
                                       raised |-> b.raised]]]
    /\ UNCHANGED <<records, phase, states, symbols, initial_state, terminals,
                   transitions, current_state, lastCall, entry_state,
                   printed, verdict, attempts, raised>>

NextPair == PeerReset \/ PeerAdvance

SpecPair == InitPair /\ [][NextPair]_vars

(***************************************************************************)
(* Properties.                                                             *)
(***************************************************************************)
IsRun == phase = "ready" /\ lastCall.op = "run"

IsAdvance == phase = "ready" /\ lastCall.op = "advance"

\* C1: every run starts from initial_state, whatever state the earlier
\* calls left in current_state: the first transition a run takes, or the
\* first transition it fails to take, leaves from initial_state, and a run
\* that attempts no transition ends in initial_state.
C1_RunStartsFromInitial ==
    IsRun =>
        /\ printed # <<>> => printed[1][1] = initial_state
        /\ (printed = <<>> /\ raised.kind = "TransitionError")
               => raised.payload[1] = initial_state
        /\ printed = <<>> => current_state = initial_state

\* a run that took a transition, called in a state other than initial_state
C1_Witness ==
    /\ IsRun
    /\ entry_state # initial_state
    /\ printed # <<>>

\* C2: a failing advance never changes current_state: after an advance
\* that raised SymbolError or TransitionError, current_state is the state
\* the call was made in.
C2_FailingAdvanceKeepsState ==
    (IsAdvance /\ raised # NoError) => current_state = entry_state

\* an advance that raised TransitionError away from the initial state
C2_Witness ==
    /\ IsAdvance
    /\ raised.kind = "TransitionError"
    /\ entry_state # initial_state

(***************************************************************************)
(* The transition function the definition declares, read off the dict.     *)
(***************************************************************************)
\* the declared target of (s, x): <<t>>, or <<>> when there is none
Delta(s, x) == IF s \in DOMAIN transitions THEN Get(transitions[s], x) ELSE <<>>

\* the state reached from s over the first n symbols of seq, as an option
RECURSIVE Fold(_, _, _)
Fold(s, seq, n) ==
    IF n = 0 THEN <<s>>
    ELSE LET p == Fold(s, seq, n - 1)
         IN  IF p = <<>> THEN <<>> ELSE Delta(p[1], seq[n])

\* every step of seq from initial_state is over the alphabet and declared
AllDefined(seq) ==
    \A i \in 1..Len(seq) :
        seq[i] \in symbols /\ Fold(initial_state, seq, i) # <<>>

\* the first n lines of the last call are the first n steps of the path
\* of seq from initial_state
PathPrinted(seq, n) ==
    /\ Len(printed) >= n
    /\ \A i \in 1..n :
          /\ Fold(initial_state, seq, i) # <<>>
          /\ printed[i] = <<Fold(initial_state, seq, i - 1)[1], seq[i],
                            Fold(initial_state, seq, i)[1]>>

C4_RunStopsAtFirstFailure ==
    (IsRun /\ raised # NoError) =>
        LET k == Len(printed)
        IN  /\ k < Len(lastCall.arg)
            /\ attempts = k + 1
            /\ PathPrinted(lastCall.arg, k)
            /\ Fold(initial_state, lastCall.arg, k) = <<current_state>>

\* a run that failed after a transition with a symbol still unread
C4_Witness ==
    /\ IsRun
    /\ raised # NoError
    /\ printed # <<>>
    /\ Len(lastCall.arg) > Len(printed) + 1
    /\ current_state # initial_state

C6_RunConsumesAll ==
    (IsRun /\ AllDefined(lastCall.arg)) =>
        /\ raised = NoError
        /\ Len(printed) = Len(lastCall.arg)
        /\ PathPrinted(lastCall.arg, Len(lastCall.arg))
        /\ Fold(initial_state, lastCall.arg, Len(lastCall.arg)) = <<current_state>>

\* C7: a successful advance follows the transition function: when the
\* symbol x is in the alphabet and (s, x) has a declared target t, advance
\* succeeds, sets current_state to t and reports the record (s, x, t).
C7_AdvanceFollowsTransitions ==
    IsAdvance =>
        LET x == lastCall.arg[1]
            t == Delta(entry_state, x)
        IN  (x \in symbols /\ t # <<>>) =>
                /\ raised = NoError
                /\ current_state = t[1]
                /\ printed = << <<entry_state, x, t[1]>> >>

\* C8: the alphabet is tested first: advance with a symbol outside symbols
\* raises SymbolError of that symbol, never TransitionError, whether or not
\* the dict has an entry for the pair, and advance with a symbol of the
\* alphabet never raises SymbolError.
C8_SymbolCheckedFirst ==
    IsAdvance =>
        LET x == lastCall.arg[1]
        IN  /\ x \notin symbols => raised = SymbolError(x)
            /\ x \in symbols => raised.kind # "SymbolError"

\* an advance with a symbol outside the alphabet, away from the initial
\* state, for a pair the dict has an entry for
C8_Witness ==
    /\ IsAdvance
    /\ lastCall.arg[1] \notin symbols
    /\ entry_state # initial_state
    /\ Delta(entry_state, lastCall.arg[1]) # <<>>

\* C9: advance raises TransitionError exactly when the symbol is in the
\* alphabet and the pair (current_state, symbol) has no entry, and the error
\* carries the state of the call and the symbol.
C9_TransitionErrorExactly ==
    IsAdvance =>
        LET x == lastCall.arg[1]
        IN  /\ raised.kind = "TransitionError"
                  <=> (x \in symbols /\ Delta(entry_state, x) = <<>>)
            /\ raised.kind = "TransitionError" =>
                  /\ raised.payload[1] = entry_state
                  /\ raised.payload[2] = x

IsExampleRun ==
    /\ IsRun
    /\ records = ExampleRecords
    /\ lastCall.arg = sequence1

\* C10 as stated: on the example definition run("abbaabab") ends at state A
\* and is terminated.
C10_ExampleEndsAtA ==
    IsExampleRun => current_state = "A" /\ verdict = "Terminated"

\* C10, amended: on the example definition run("abbaabab") consumes all
\* eight symbols and ends at state B, which is not terminal: the verdict is
\* Failed to terminate.
C10_ExampleEndsAtB ==
    IsExampleRun =>
        /\ raised = NoError
        /\ Len(printed) = 8
        /\ current_state = "B"
        /\ verdict = "Failed to terminate"

\* the example run, called in a state other than the initial one
C10_Witness ==
    /\ IsExampleRun
    /\ entry_state = "C"

(***************************************************************************)
(* The rows of the file, read without the loader.                          *)
(***************************************************************************)
\* the file has its four header rows and only three-field transition rows
WellFormed(recs) ==
    /\ Len(recs) >= 4
    /\ \A i \in 5..Len(recs) : Len(recs[i]) = 3

\* the states row i references that row 0 does not declare
Offending(recs, i) == {recs[i][1], recs[i][3]} \ SetOf(recs[1])

\* the rows that reference an undeclared state
OffendingRows(recs) == {i \in 5..Len(recs) : Offending(recs, i) # {}}

\* C11: loading a file of three-field transition rows fails with StateError
\* whenever a transition row references a state row 0 does not declare, and
\* the error names every offending state of the first such row: from_state
\* and to_state are each tested, so both are named when both are undeclared.
C11_StateErrorNamesOffenders ==
    (WellFormed(records) /\ OffendingRows(records) # {}) =>
        LET i == CHOOSE r \in OffendingRows(records) :
                     \A q \in OffendingRows(records) : r <= q
        IN  /\ phase = "failed"
            /\ raised.kind = "StateError"
            /\ SetOf(raised.payload) = Offending(records, i)
            /\ Len(raised.payload) = Cardinality(Offending(records, i))

\* a load that failed on a row whose two states are both undeclared
C11_Witness ==
    /\ WellFormed(records)
    /\ phase = "failed"
    /\ raised.kind = "StateError"
    /\ Len(raised.payload) = 2

\* C12: construction fails with StateError when the initial state or an
\* entry of the terminal states is not a declared state; no machine is
\* obtained from such rows.
C12_UndeclaredInitialOrTerminalRejected ==
    (/\ Len(records) >= 4
     /\ \/ records[3][1] \notin SetOf(records[1])
        \/ ~(SetOf(records[4]) \subseteq SetOf(records[1])))
        => (phase = "failed" /\ raised.kind = "StateError")

\* the file is structurally malformed: fewer than four header rows, row 2
\* not exactly one field, or a transition row not exactly three fields
Malformed(recs) ==
    \/ Len(recs) < 4
    \/ Len(recs[3]) # 1
    \/ \E i \in 5..Len(recs) : Len(recs[i]) # 3

\* C13: loading a structurally malformed file fails with DefinitionError,
\* also when the file references an undeclared state, wherever the
\* malformed row sits.
C13_MalformedGivesDefinitionError ==
    Malformed(records) => (phase = "failed" /\ raised.kind = "DefinitionError")

\* the transition rows that no later row of the same (from_state, symbol)
\* follows
LastRows(recs) ==
    {i \in 5..Len(recs) :
        ~\E j \in (i + 1)..Len(recs) :
            recs[j][1] = recs[i][1] /\ recs[j][2] = recs[i][2]}

\* the (from_state, symbol, to_state) entries of a dict of dicts
Entries(d) ==
    UNION {{<<f, x, d[f][x]>> : x \in DOMAIN d[f]} : f \in DOMAIN d}

IsLoaded == phase = "ready" /\ lastCall.op = "__init__"

\* C14: load round trip: after a load that succeeded, states is the set of
\* the fields of row 0, symbols that of row 1, initial_state the (first)
\* field of row 2, terminals the set of the fields of row 3, and transitions
\* holds exactly the (from_state, symbol) -> to_state pairs the rows from 4
\* on declare (the last row of a pair standing for it), under exactly the
\* from_states of these rows.
C14_LoadRoundTrip ==
    IsLoaded =>
        /\ states = {records[1][i] : i \in 1..Len(records[1])}
        /\ symbols = {records[2][i] : i \in 1..Len(records[2])}
        /\ initial_state = Head(records[3])
        /\ terminals = {records[4][i] : i \in 1..Len(records[4])}
        /\ Entries(transitions)
              = {<<records[i][1], records[i][2], records[i][3]>> :
                    i \in LastRows(records)}
        /\ DOMAIN transitions = {records[i][1] : i \in 5..Len(records)}

\* a loaded file with a duplicated state in row 0, terminals that differ
\* from the initial state row, and two transition rows
C14_Witness ==
    /\ IsLoaded
    /\ Cardinality(states) < Len(records[1])
    /\ terminals # SetOf(records[3])
    /\ Cardinality(Entries(transitions)) = 2

\* C15: running the machine never changes the definition: states, symbols,
\* initial_state, terminals and transitions stay as the load built them,
\* also after a lookup that misses.
C15_DefinitionUnchanged ==
    phase = "ready" =>
        /\ states = parse(records).states
        /\ symbols = parse(records).symbols
        /\ initial_state = parse(records).initial_state
        /\ terminals = parse(records).terminals
        /\ transitions = parse(records).transitions

\* C16: in every reachable state of a constructed machine current_state is
\* a declared state.
C16_CurrentStateDeclared ==
    phase = "ready" => current_state \in states

\* C17: last write wins: the dict maps every (from_state, symbol) pair of
\* the transition rows to the to_state of the last row of that pair, in
\* every state of a loaded machine, and to that target only.
C17_LastWriteWins ==
    phase = "ready" =>
        \A i \in LastRows(records) :
            /\ Delta(records[i][1], records[i][2]) = <<records[i][3]>>
            /\ Cardinality({e \in Entries(transitions) :
                    e[1] = records[i][1] /\ e[2] = records[i][2]}) = 1

\* a loaded file with two rows of one pair and different targets, after a
\* call on the machine
C17_Witness ==
    /\ phase = "ready"
    /\ lastCall.op # "__init__"
    /\ \E i \in 5..Len(records) : \E j \in (i + 1)..Len(records) :
          /\ records[i][1] = records[j][1]
          /\ records[i][2] = records[j][2]
          /\ records[i][3] # records[j][3]

\* C18: within one run the trace is a connected path: the first record
\* leaves from initial_state, every later record leaves from the state the
\* record before it arrived in, and the final current_state is the to_state
\* of the last record, or initial_state when the trace is empty.
C18_TraceIsConnectedPath ==
    IsRun =>
        /\ printed # <<>> => printed[1][1] = initial_state
        /\ \A i \in 2..Len(printed) : printed[i][1] = printed[i - 1][3]
        /\ current_state = IF printed = <<>> THEN initial_state
                           ELSE printed[Len(printed)][3]

\* a run of three transitions that does not end where it started
C18_Witness ==
    /\ IsRun
    /\ Len(printed) >= 3
    /\ printed[2][1] # printed[2][3]
    /\ current_state # initial_state

\* C19: a terminal state does not halt the machine: an advance made in a
\* terminal state with a symbol of the alphabet whose pair has a declared
\* target succeeds and moves to that target, and a run over declared steps
\* that passes through a terminal state consumes every symbol.
C19_TerminalDoesNotHalt ==
    /\ IsAdvance =>
          LET x == lastCall.arg[1]
              t == Delta(entry_state, x)
          IN  (entry_state \in terminals /\ x \in symbols /\ t # <<>>) =>
                  (raised = NoError /\ current_state = t[1])
    /\ IsRun =>
          LET seq == lastCall.arg
          IN  (/\ AllDefined(seq)
               /\ \E i \in 0..(Len(seq) - 1) :
                     Fold(initial_state, seq, i)[1] \in terminals) =>
                  (raised = NoError /\ Len(printed) = Len(seq))

\* C20: machines on one definition do not interfere: under every
\* interleaving of the reset and advance calls of the two machines, the
\* current_state of each machine and the result of its last call (printed
\* record, exception) are those of a machine that is given the same calls
\* alone.
C20_NoInterference ==
    phase = "ready" =>
        \A m \in Machines :
            /\ peers.cur[m] = peers.alone[m].cur
            /\ peers.res[m] = peers.alone[m].res

\* two machines on one dict object in different states, after a lookup of
\* machine 2 missed and left an entry in the dict machine 1 reads
C20_Witness ==
    /\ phase = "ready"
    /\ peers.shared
    /\ peers.cur[1] # peers.cur[2]
    /\ peers.res[1].raised = NoError
    /\ peers.res[1].printed # <<>>
    /\ peers.res[2].raised.kind = "TransitionError"
    /\ peers.dict[1] # peers.alone[1].dict

====
